---- MODULE Spec2Model ----
(***************************************************************************)
(* Model of zerver/views/digest.py: the hot-conversation ranking           *)
(* (gather_hot_conversations), enough_traffic, build_digest and            *)
(* enqueue_emails.  Every function is one action that runs the whole body. *)
(***************************************************************************)
EXTENDS Integers, Sequences, FiniteSets, TLC

(* ------------------------------ bounds --------------------------------- *)
\* longest freely chosen run of stream messages
MaxMsgs == 3
\* longest freely chosen run added before or after the backlog
MaxExtra == 2

(* --------------------------- small helpers ----------------------------- *)
Range(s) == {s[i] : i \in 1..Len(s)}
Min(a, b) == IF a < b THEN a ELSE b
\* Python slice s[a:b] for 0 <= a, 0 <= b
Slice(s, a, b) == SubSeq(s, a + 1, Min(b, Len(s)))

(* ------------------- messages of the home view ------------------------- *)
\* (recipient.type_id, subject) pairs of the stream messages in the window
Conversations ==
  {<<1, "lunch">>, <<1, "deploy">>, <<2, "lunch">>, <<2, "deploy">>, <<3, "lunch">>}
Senders == {"alice", "bob"}
Bot == "notification-bot"

UserMessage(k, s, h) ==
  [type_id |-> k[1], subject |-> k[2], sender |-> s, sent_by_human |-> h]
Msg == {UserMessage(k, s, TRUE) : k \in Conversations, s \in Senders}
         \cup {UserMessage(k, Bot, FALSE) : k \in Conversations}

\* key = (user_message.message.recipient.type_id, user_message.message.subject)
KeyOf(m) == <<m.type_id, m.subject>>

(* ------------- Python dict: items in insertion order ------------------- *)
DictKeys(d) == {d[i][1] : i \in 1..Len(d)}
\* defaultdict lookup: the default for a missing key
DictGet(d, k, default) ==
  IF k \in DictKeys(d)
    THEN d[CHOOSE i \in 1..Len(d) : d[i][1] = k][2]
    ELSE default
DictSet(d, k, v) ==
  IF k \in DictKeys(d)
    THEN [i \in 1..Len(d) |-> IF d[i][1] = k THEN <<k, v>> ELSE d[i]]
    ELSE Append(d, <<k, v>>)

(* ------------------- gather_hot_conversations -------------------------- *)
\* as GroupMessages, without the check of sent_by_human
RECURSIVE GroupMessagesCountingBots(_, _, _, _)
GroupMessagesCountingBots(msgs, i, length, diversity) ==
  IF i > Len(msgs) THEN [length |-> length, diversity |-> diversity]
  ELSE LET key == KeyOf(msgs[i]) IN
       GroupMessagesCountingBots(msgs, i + 1,
         DictSet(length, key, DictGet(length, key, 0) + 1),
         DictSet(diversity, key, DictGet(diversity, key, {}) \cup {msgs[i].sender}))

\* the for loop over stream_messages: skip automated messages, add the
\* sender to the conversation's set and count the message
RECURSIVE GroupMessages(_, _, _, _)
GroupMessages(msgs, i, length, diversity) ==
  IF i > Len(msgs) THEN [length |-> length, diversity |-> diversity]
  ELSE IF ~msgs[i].sent_by_human
    THEN GroupMessages(msgs, i + 1, length, diversity)
    ELSE LET key == KeyOf(msgs[i]) IN
         GroupMessages(msgs, i + 1,
           DictSet(length, key, DictGet(length, key, 0) + 1),
           DictSet(diversity, key, DictGet(diversity, key, {}) \cup {msgs[i].sender}))

\* as SortedIndices, an ascending sort read backwards: equal keys come out
\* in reverse order
RECURSIVE SortedIndicesUnstable(_, _, _)
SortedIndicesUnstable(ranks, i, sorted) ==
  IF i > Len(ranks) THEN sorted
  ELSE LET p == Cardinality({q \in 1..Len(sorted) : ranks[sorted[q]] > ranks[i]}) IN
       SortedIndicesUnstable(ranks, i + 1,
         SubSeq(sorted, 1, p) \o <<i>> \o SubSeq(sorted, p + 1, Len(sorted)))

\* list.sort(key=..., reverse=True): descending and stable; ranks[i] is the
\* sort key of the i-th entry, the result is the order of the indices
RECURSIVE SortedIndices(_, _, _)
SortedIndices(ranks, i, sorted) ==
  IF i > Len(ranks) THEN sorted
  ELSE LET p == Cardinality({q \in 1..Len(sorted) : ranks[sorted[q]] >= ranks[i]}) IN
       SortedIndices(ranks, i + 1,
         SubSeq(sorted, 1, p) \o <<i>> \o SubSeq(sorted, p + 1, Len(sorted)))

SortReverse(list, ranks) ==
  LET order == SortedIndices(ranks, 1, <<>>) IN
  [p \in 1..Len(list) |-> list[order[p]]]

\* as DiversityList, without reverse=True
DiversityListAscending(diversity) ==
  SortReverse(diversity, [i \in 1..Len(diversity) |-> 0 - Cardinality(diversity[i][2])])

DiversityList(diversity) ==
  SortReverse(diversity, [i \in 1..Len(diversity) |-> Cardinality(diversity[i][2])])

LengthList(length) ==
  SortReverse(length, [i \in 1..Len(length) |-> length[i][2]])

\* hot_conversations = [elt[0] for elt in diversity_list[:2]]
DiversityWinners(diversity_list) ==
  LET top == Slice(diversity_list, 0, 2) IN [i \in 1..Len(top) |-> top[i][1]]

\* as LengthPass, stopping only above 4
RECURSIVE LengthPassUpTo5(_, _, _)
LengthPassUpTo5(hot, length_list, i) ==
  IF i > Len(length_list) THEN hot
  ELSE LET candidate == length_list[i][1]
           hot2 == IF candidate \notin Range(hot) THEN Append(hot, candidate) ELSE hot
       IN IF Len(hot2) > 4 THEN hot2 ELSE LengthPassUpTo5(hot2, length_list, i + 1)

\* as LengthPass, stopping at 3
RECURSIVE LengthPassUpTo3(_, _, _)
LengthPassUpTo3(hot, length_list, i) ==
  IF i > Len(length_list) THEN hot
  ELSE LET candidate == length_list[i][1]
           hot2 == IF candidate \notin Range(hot) THEN Append(hot, candidate) ELSE hot
       IN IF Len(hot2) >= 3 THEN hot2 ELSE LengthPassUpTo3(hot2, length_list, i + 1)

\* for candidate, _ in length_list: append if new, stop at 4
RECURSIVE LengthPass(_, _, _)
LengthPass(hot, length_list, i) ==
  IF i > Len(length_list) THEN hot
  ELSE LET candidate == length_list[i][1]
           hot2 == IF candidate \notin Range(hot) THEN Append(hot, candidate) ELSE hot
       IN IF Len(hot2) >= 4 THEN hot2 ELSE LengthPass(hot2, length_list, i + 1)

\* hot_conversations.extend([elt[0] for elt in diversity_list[num_convos:4]])
Backfill(hot, diversity_list) ==
  LET num == Len(hot)
      rest == Slice(diversity_list, num, 4)
  IN IF num < 4 THEN hot \o [i \in 1..Len(rest) |-> rest[i][1]] ELSE hot

\* stream_messages.filter(type_id=stream_id, subject=subject)[:2]
FirstFewMessages(msgs, h) ==
  Slice(SelectSeq(msgs, LAMBDA m : m.type_id = h[1] /\ m.subject = h[2]), 0, 2)

TeaserData(msgs, length, diversity, h) ==
  LET first_few_messages == FirstFewMessages(msgs, h) IN
  [participants |-> DictGet(diversity, h, {}),
   count |-> DictGet(length, h, 0) - Len(first_few_messages),
   first_few_messages |-> first_few_messages]

RenderPayloads(msgs, length, diversity, hot) ==
  [i \in 1..Len(hot) |-> TeaserData(msgs, length, diversity, hot[i])]

(* ------------------------------ inputs --------------------------------- *)
Runs(n) == UNION {[1..m -> Msg] : m \in 0..n}
SmallInputs == Runs(MaxMsgs)

\* a home view in which every conversation already has one message
Backlog ==
  << UserMessage(<<1, "lunch">>, "alice", TRUE),
     UserMessage(<<1, "deploy">>, "alice", TRUE),
     UserMessage(<<2, "lunch">>, "alice", TRUE),
     UserMessage(<<2, "deploy">>, "alice", TRUE),
     UserMessage(<<3, "lunch">>, "alice", TRUE) >>
BacklogInputs ==
  {s \o Backlog : s \in Runs(MaxExtra)} \cup {Backlog \o s : s \in Runs(MaxExtra)}

\* the worked example: A (5 messages, 3 senders), B (3, 1), C (2, 2), D (1, 1)
ConvA == <<1, "lunch">>
ConvB == <<1, "deploy">>
ConvC == <<2, "lunch">>
ConvD == <<2, "deploy">>
Example ==
  << UserMessage(ConvA, "alice", TRUE), UserMessage(ConvB, "alice", TRUE),
     UserMessage(ConvA, "bob", TRUE),   UserMessage(ConvC, "alice", TRUE),
     UserMessage(ConvA, "carol", TRUE), UserMessage(ConvB, "alice", TRUE),
     UserMessage(ConvD, "bob", TRUE),   UserMessage(ConvC, "bob", TRUE),
     UserMessage(ConvA, "alice", TRUE), UserMessage(ConvB, "alice", TRUE),
     UserMessage(ConvA, "bob", TRUE) >>
InsertAt(s, p, m) == SubSeq(s, 1, p) \o <<m>> \o SubSeq(s, p + 1, Len(s))
\* the example as it is, or with one automated message somewhere in it
ExampleInputs ==
  {Example} \cup
  {InsertAt(Example, p, UserMessage(k, Bot, FALSE)) : p \in 0..Len(Example), k \in Conversations}

StreamInputs == SmallInputs \cup BacklogInputs \cup ExampleInputs

(* --------------------------- enough_traffic ---------------------------- *)
\* longest list and largest count handed to enough_traffic
MaxItems == 2
MaxCount == 2

\* Python truth value of a list and of an int
TruthyList(l) == Len(l) # 0
TruthyInt(n) == n # 0

EnoughTrafficOr(unread, hot, new_streams, new_users) ==
  IF TruthyList(unread) \/ TruthyList(hot) THEN TRUE
  ELSE IF TruthyInt(new_streams) \/ TruthyInt(new_users) THEN TRUE
  ELSE FALSE

EnoughTraffic(unread, hot, new_streams, new_users) ==
  IF TruthyList(unread) \/ TruthyList(hot) THEN TRUE
  ELSE IF TruthyInt(new_streams) /\ TruthyInt(new_users) THEN TRUE
  ELSE FALSE

Items(n) == UNION {[1..m -> {"item"}] : m \in 0..n}

(* ----------------------------- build_digest ---------------------------- *)
\* most messages in the user's window
MaxWindow == 5

VALID_DIGEST_DAY == 1
pms_limit == 4

STREAM == "stream"
PERSONAL == "personal"

\* the caller and the two profiles that differ from it
Member == [full_name |-> "alice", long_term_idle |-> FALSE,
           can_access_all_realm_members |-> TRUE, can_access_public_streams |-> TRUE]
Guest == [full_name |-> "alice", long_term_idle |-> FALSE,
          can_access_all_realm_members |-> FALSE, can_access_public_streams |-> FALSE]
IdleMember == [full_name |-> "alice", long_term_idle |-> TRUE,
               can_access_all_realm_members |-> TRUE, can_access_public_streams |-> TRUE]
Profiles == {Member, Guest, IdleMember}

\* rows of the window: private messages from somebody else and from the
\* user, stream messages of a home-view stream and of a muted one
WindowMessage(type, type_id, subject, sender) ==
  [recipient_type |-> type, type_id |-> type_id, subject |-> subject,
   sender |-> sender, sent_by_human |-> TRUE]
WindowMsg ==
  { WindowMessage(PERSONAL, 7, "", "bob"), WindowMessage(PERSONAL, 8, "", "alice"),
    WindowMessage(STREAM, 1, "lunch", "bob"), WindowMessage(STREAM, 2, "lunch", "bob") }
Windows == UNION {[1..m -> WindowMsg] : m \in 0..MaxWindow}

\* Subscription rows of the user
Subscriptions ==
  { [recipient |-> 1, active |-> TRUE, in_home_view |-> TRUE],
    [recipient |-> 2, active |-> TRUE, in_home_view |-> FALSE] }

\* streams and users of the realm
RealmStreams ==
  << [id |-> 1, name |-> "design", invite_only |-> FALSE, date_created |-> 2],
     [id |-> 2, name |-> "board", invite_only |-> TRUE, date_created |-> 3] >>
RealmUsers ==
  << [full_name |-> "carol", date_joined |-> 2, is_bot |-> FALSE],
     [full_name |-> "webhook", date_joined |-> 3, is_bot |-> TRUE] >>
Cutoffs == {1, 2}

\* if user_profile.long_term_idle: return None
SkipsDigestNever(profile) == FALSE
SkipsDigest(profile) == profile.long_term_idle

\* all_messages.filter(~Q(recipient type STREAM) & ~Q(sender=user_profile))
MissedPms(all, profile) ==
  SelectSeq(all, LAMBDA m : m.recipient_type # STREAM /\ m.sender # profile.full_name)

\* min(0, len(pms) - pms_limit)
RemainingMax(n) == IF 0 > n - pms_limit THEN 0 ELSE n - pms_limit
RemainingUnreadPmsCount(n) == Min(0, n - pms_limit)

HomeViewRecipients ==
  {sub.recipient : sub \in {s \in Subscriptions : s.active /\ s.in_home_view}}

\* all_messages.filter(recipient type STREAM, recipient in home_view_recipients)
HomeViewStreamMessages(all) ==
  LET rows == SelectSeq(all, LAMBDA m : m.recipient_type = STREAM
                                         /\ m.type_id \in HomeViewRecipients)
  IN [i \in 1..Len(rows) |->
        [type_id |-> rows[i].type_id, subject |-> rows[i].subject,
         sender |-> rows[i].sender, sent_by_human |-> rows[i].sent_by_human]]

GatherHotConversations(msgs) ==
  LET g == GroupMessages(msgs, 1, <<>>, <<>>)
      dl == DiversityList(g.diversity)
      hot == Backfill(LengthPass(DiversityWinners(dl), LengthList(g.length), 1), dl)
  IN RenderPayloads(msgs, g.length, g.diversity, hot)

GatherNewStreams(profile, threshold) ==
  LET new_streams ==
        IF profile.can_access_public_streams
          THEN SelectSeq(RealmStreams, LAMBDA s : ~s.invite_only /\ s.date_created > threshold)
          ELSE <<>>
  IN [count |-> Len(new_streams),
      streams |-> [html |-> [i \in 1..Len(new_streams) |->
                               <<"a", new_streams[i].id, new_streams[i].name>>],
                   plain |-> [i \in 1..Len(new_streams) |-> new_streams[i].name]]]

GatherNewUsers(profile, threshold) ==
  LET new_users ==
        IF ~profile.can_access_all_realm_members THEN <<>>
        ELSE SelectSeq(RealmUsers, LAMBDA u : u.date_joined > threshold /\ ~u.is_bot)
      user_names == [i \in 1..Len(new_users) |-> new_users[i].full_name]
  IN [count |-> Len(user_names), names |-> user_names]

BuildContext(profile, cutoff, all) ==
  LET pms == MissedPms(all, profile)
      streams == GatherNewStreams(profile, cutoff)
  IN [realm_name |-> "acme",
      name |-> profile.full_name,
      unsubscribe_link |-> <<"unsubscribe", profile.full_name, "digest">>,
      unread_pms |-> Slice(pms, 0, pms_limit),
      remaining_unread_pms_count |-> RemainingUnreadPmsCount(Len(pms)),
      hot_conversations |-> GatherHotConversations(HomeViewStreamMessages(all)),
      new_streams |-> streams.streams,
      new_streams_count |-> streams.count,
      new_users |-> GatherNewUsers(profile, cutoff).names]

NoContext == [returned |-> "None"]

(* ---------------------------- enqueue_emails --------------------------- *)
\* names bound at module level of digest.py: its imports, constants and defs
ModuleGlobals ==
  { "HttpResponseBadRequest", "HttpRequest", "HttpResponse", "connection", "json",
    "Any", "Callable", "Dict", "Iterable", "List", "Set", "Tuple", "defaultdict",
    "datetime", "logging", "pytz", "Q", "QuerySet", "loader", "settings",
    "timezone_now", "build_message_list", "encode_stream",
    "one_click_unsubscribe_link", "send_future_email", "FromAddress",
    "UserProfile", "UserMessage", "Recipient", "Stream", "Subscription",
    "UserActivity", "get_active_streams", "get_user_profile_by_id", "Realm",
    "common_context", "redirect", "render", "VALID_DIGEST_DAY", "DIGEST_CUTOFF",
    "inactive_since", "should_process_digest", "queue_digest_recipient",
    "enqueue_emails", "gather_hot_conversations", "gather_new_users",
    "gather_new_streams", "enough_traffic", "build_digest", "digest" }

Weekdays == 0..6
SYSTEM_ONLY_REALMS == {"zulip"}

\* Realm rows: a customer realm with any flags and the system realm
RealmTables ==
  { << [string_id |-> "acme", deactivated |-> d, show_digest_email |-> s],
       [string_id |-> "zulip", deactivated |-> FALSE, show_digest_email |-> TRUE] >>
    : d \in BOOLEAN, s \in BOOLEAN }

\* UserProfile rows: user 1 with any realm and flags, user 2 a plain member
UserTables ==
  { << [id |-> 1, realm |-> r, is_active |-> a, is_bot |-> b, enable_digest_emails |-> e],
       [id |-> 2, realm |-> "acme", is_active |-> TRUE, is_bot |-> FALSE,
        enable_digest_emails |-> TRUE] >>
    : r \in {"acme", "zulip"}, a \in BOOLEAN, b \in BOOLEAN, e \in BOOLEAN }

\* UserActivity.last_visit of each user, and the cutoffs they are held against
EnqueueCutoffs == {2, 3}
ActivityTables ==
  { [u \in {1, 2} |-> IF u = 1 THEN v ELSE {}] : v \in {{}, {1}, {2}, {1, 3}} }

MaxOf(S) == CHOOSE x \in S : \A y \in S : y <= x

InactiveSince(activity, user, cutoff) ==
  LET most_recent_visit == activity[user.id] IN
  IF most_recent_visit = {} THEN TRUE
  ELSE MaxOf(most_recent_visit) < cutoff

ShouldProcessDigest(realm_str) ==
  IF realm_str \in SYSTEM_ONLY_REALMS THEN FALSE ELSE TRUE

\* event = {"user_profile_id": ..., "cutoff": cutoff.strftime('%s')}
DigestEvent(user, cutoff) ==
  [user_profile_id |-> user.id, cutoff |-> ToString(cutoff)]

\* the users enqueue_emails reaches queue_digest_recipient for, in loop order
RECURSIVE DigestRecipients(_, _, _, _, _)
DigestRecipients(realms, users, activity, cutoff, i) ==
  IF i > Len(realms) THEN <<>>
  ELSE LET realm == realms[i]
           rest == DigestRecipients(realms, users, activity, cutoff, i + 1)
       IN IF realm.deactivated \/ ~realm.show_digest_email THEN rest
          ELSE IF ~ShouldProcessDigest(realm.string_id) THEN rest
          ELSE SelectSeq(users, LAMBDA u :
                 /\ u.realm = realm.string_id /\ u.is_active /\ ~u.is_bot
                 /\ u.enable_digest_emails
                 /\ InactiveSince(activity, u, cutoff)) \o rest

\* queue_digest_recipient and the logger call for each of them: a name that
\* is not bound in the module raises NameError where it is looked up
RECURSIVE QueueRecipients(_, _, _, _)
QueueRecipients(recipients, cutoff, i, queue) ==
  IF i > Len(recipients) THEN [queue |-> queue, exception |-> "none"]
  ELSE IF "queue_json_publish" \notin ModuleGlobals
    THEN [queue |-> queue, exception |-> "NameError"]
  ELSE LET published == Append(queue, DigestEvent(recipients[i], cutoff)) IN
       IF "logger" \notin ModuleGlobals
         THEN [queue |-> published, exception |-> "NameError"]
         ELSE QueueRecipients(recipients, cutoff, i + 1, published)

EnqueueEmails(send, day, realms, users, activity, cutoff, queue) ==
  IF ~send THEN [queue |-> queue, exception |-> "none"]
  ELSE IF day # VALID_DIGEST_DAY THEN [queue |-> queue, exception |-> "none"]
  ELSE QueueRecipients(DigestRecipients(realms, users, activity, cutoff, 1), cutoff, 1, queue)

(* ------------------------------- state --------------------------------- *)
VARIABLES
  pc,
  \* gather_hot_conversations: its argument and its locals
  stream_messages, conversation_length, conversation_diversity, diversity_list,
  length_list, num_convos, hot_conversations, hot_conversation_render_payloads,
  \* enough_traffic: its arguments and its result
  traffic, enough,
  \* the cutoff handed to build_digest or to enqueue_emails
  cutoff,
  \* build_digest: the user, the window, the gather calls made and the
  \* value returned
  user_profile, all_messages, gathered, digest_context,
  \* enqueue_emails: settings, the day, the tables, the queue and the
  \* exception that ended the call
  SEND_DIGEST_EMAILS, weekday, realms, user_profiles, user_activity,
  digest_emails, exception

hotVars == <<stream_messages, conversation_length, conversation_diversity,
             diversity_list, length_list, num_convos, hot_conversations,
             hot_conversation_render_payloads>>
trafficVars == <<traffic, enough>>
digestVars == <<user_profile, all_messages, gathered, digest_context>>
enqueueVars == <<SEND_DIGEST_EMAILS, weekday, realms, user_profiles, user_activity,
                 digest_emails, exception>>
vars == <<pc, cutoff, hotVars, trafficVars, digestVars, enqueueVars>>

HotIdle ==
  /\ conversation_length = <<>>
  /\ conversation_diversity = <<>>
  /\ diversity_list = <<>>
  /\ length_list = <<>>
  /\ num_convos = 0
  /\ hot_conversations = <<>>
  /\ hot_conversation_render_payloads = <<>>

TrafficIdle == enough = FALSE

DigestIdle ==
  /\ gathered = <<>>
  /\ digest_context = NoContext

EnqueueIdle ==
  /\ digest_emails = <<>>
  /\ exception = "none"

NoTraffic ==
  [unread_pms |-> <<>>, hot_conversations |-> <<>>, new_streams |-> 0, new_users |-> 0]

\* one fixed input for the functions a specification does not call
HotFixed == stream_messages = <<>> /\ HotIdle
TrafficFixed == traffic = NoTraffic /\ TrafficIdle
DigestFixed ==
  user_profile = Member /\ all_messages = <<>> /\ DigestIdle
EnqueueFixed ==
  /\ SEND_DIGEST_EMAILS = FALSE
  /\ weekday = 0
  /\ realms = <<>>
  /\ user_profiles = <<>>
  /\ user_activity = <<>>
  /\ EnqueueIdle

(* ------------------------------ actions -------------------------------- *)
gather_hot_conversations ==
  /\ pc = "start"
  /\ LET g == GroupMessages(stream_messages, 1, <<>>, <<>>)
         dl == DiversityList(g.diversity)
         ll == LengthList(g.length)
         hot == LengthPass(DiversityWinners(dl), ll, 1)
         final == Backfill(hot, dl)
     IN /\ conversation_length' = g.length
        /\ conversation_diversity' = g.diversity
        /\ diversity_list' = dl
        /\ length_list' = ll
        /\ num_convos' = Len(hot)
        /\ hot_conversations' = final
        /\ hot_conversation_render_payloads' =
             RenderPayloads(stream_messages, g.length, g.diversity, final)
  /\ pc' = "done"
  /\ UNCHANGED <<stream_messages, cutoff, trafficVars, digestVars, enqueueVars>>

enough_traffic ==
  /\ pc = "start"
  /\ enough' = EnoughTraffic(traffic.unread_pms, traffic.hot_conversations,
                             traffic.new_streams, traffic.new_users)
  /\ pc' = "done"
  /\ UNCHANGED <<traffic, cutoff, hotVars, digestVars, enqueueVars>>

build_digest ==
  /\ pc = "start"
  /\ IF SkipsDigest(user_profile)
       THEN /\ digest_context' = NoContext
            /\ gathered' = <<>>
       ELSE /\ digest_context' =
                 [returned |-> "context",
                  context |-> BuildContext(user_profile, cutoff, all_messages)]
            /\ gathered' = <<"build_message_list", "gather_hot_conversations",
                             "gather_new_streams", "gather_new_users">>
  /\ pc' = "done"
  /\ UNCHANGED <<user_profile, cutoff, all_messages, hotVars, trafficVars, enqueueVars>>

enqueue_emails ==
  /\ pc = "start"
  /\ LET r == EnqueueEmails(SEND_DIGEST_EMAILS, weekday, realms, user_profiles,
                            user_activity, cutoff, digest_emails)
     IN /\ digest_emails' = r.queue
        /\ exception' = r.exception
  /\ pc' = "done"
  /\ UNCHANGED <<SEND_DIGEST_EMAILS, weekday, realms, user_profiles, user_activity,
                 cutoff, hotVars, trafficVars,
                 user_profile, all_messages, gathered, digest_context>>

(* --------------------------- specifications ---------------------------- *)
\* gather_hot_conversations on every input of StreamInputs
Init ==
  /\ pc = "start"
  /\ stream_messages \in StreamInputs
  /\ HotIdle
  /\ cutoff = 1
  /\ TrafficFixed /\ DigestFixed /\ EnqueueFixed
Next == gather_hot_conversations
Spec == Init /\ [][Next]_vars

\* enough_traffic on every combination of short lists and small counts
InitTraffic ==
  /\ pc = "start"
  /\ traffic \in [unread_pms : Items(MaxItems), hot_conversations : Items(MaxItems),
                  new_streams : 0..MaxCount, new_users : 0..MaxCount]
  /\ TrafficIdle
  /\ cutoff = 1
  /\ HotFixed /\ DigestFixed /\ EnqueueFixed
NextTraffic == enough_traffic
SpecTraffic == InitTraffic /\ [][NextTraffic]_vars

\* build_digest for every profile, cutoff and window
InitDigest ==
  /\ pc = "start"
  /\ user_profile \in Profiles
  /\ cutoff \in Cutoffs
  /\ all_messages \in Windows
  /\ DigestIdle
  /\ HotFixed /\ TrafficFixed /\ EnqueueFixed
NextDigest == build_digest
SpecDigest == InitDigest /\ [][NextDigest]_vars

\* enqueue_emails for every setting, weekday and table
InitEnqueue ==
  /\ pc = "start"
  /\ SEND_DIGEST_EMAILS \in BOOLEAN
  /\ weekday \in Weekdays
  /\ realms \in RealmTables
  /\ user_profiles \in UserTables
  /\ user_activity \in ActivityTables
  /\ cutoff \in EnqueueCutoffs
  /\ EnqueueIdle
  /\ HotFixed /\ TrafficFixed /\ DigestFixed
NextEnqueue == enqueue_emails
SpecEnqueue == InitEnqueue /\ [][NextEnqueue]_vars

(* ------------------ the input, read without the code ------------------- *)
Done == pc = "done"

\* positions of the human-sent messages of conversation k in the input
HumanIdx(k) ==
  {i \in 1..Len(stream_messages) :
     stream_messages[i].sent_by_human /\ KeyOf(stream_messages[i]) = k}
AllIdx(k) == {i \in 1..Len(stream_messages) : KeyOf(stream_messages[i]) = k}
HumanCount(k) == Cardinality(HumanIdx(k))
DistinctSenders(k) == Cardinality({stream_messages[i].sender : i \in HumanIdx(k)})
\* conversations with at least one human-sent message, and how many there are
Talked == {k \in {KeyOf(stream_messages[i]) : i \in 1..Len(stream_messages)} : HumanIdx(k) # {}}
N == Cardinality(Talked)
FirstSeen(k) == CHOOSE i \in HumanIdx(k) : \A j \in HumanIdx(k) : i <= j

\* k comes before l in the ranking by distinct senders / by message count
MoreDiverse(k, l) ==
  \/ DistinctSenders(k) > DistinctSenders(l)
  \/ DistinctSenders(k) = DistinctSenders(l) /\ FirstSeen(k) < FirstSeen(l)
Longer(k, l) ==
  \/ HumanCount(k) > HumanCount(l)
  \/ HumanCount(k) = HumanCount(l) /\ FirstSeen(k) < FirstSeen(l)

Payloads == hot_conversation_render_payloads
Winners == {hot_conversations[i] : i \in 1..Min(2, Len(hot_conversations))}

(* ------------------------------ claims --------------------------------- *)
\* C1: every conversation summary has at most 2 preview messages, its
\* remainder count is the conversation's message count minus the number of
\* previewed messages, and the remainder count is never negative.
C1_PreviewAndRemainder ==
  Done =>
    \A i \in 1..Len(Payloads) :
      /\ Len(Payloads[i].first_few_messages) <= 2
      /\ Payloads[i].count =
           HumanCount(hot_conversations[i]) - Len(Payloads[i].first_few_messages)
      /\ Payloads[i].count >= 0

\* C2: the first min(2, N) entries of the result are the conversations with
\* the most distinct senders, most senders first and ties in first-seen
\* order; they come before every conversation chosen by message count.
C2_DiversityWinnersFirst ==
  Done =>
    /\ Len(hot_conversations) >= Min(2, N)
    /\ \A i \in 1..Min(2, N) :
         /\ hot_conversations[i] \in Talked
         /\ Cardinality({k \in Talked : MoreDiverse(k, hot_conversations[i])}) = i - 1

\* the first winner has more senders than the second, and the second was
\* picked by first-seen order over a conversation as diverse and longer
C2_Witness ==
  /\ Done
  /\ N >= 3
  /\ DistinctSenders(hot_conversations[1]) > DistinctSenders(hot_conversations[2])
  /\ \E k \in Talked \ Winners :
       /\ HumanCount(k) > HumanCount(hot_conversations[2])
       /\ DistinctSenders(k) = DistinctSenders(hot_conversations[2])

\* C3: the result holds exactly min(4, N) conversations, none of them
\* twice; with N < 4 every conversation is in it, and an input without
\* human-sent messages gives the empty list.
C3_ExactlyMin4NoDuplicates ==
  Done =>
    /\ Len(hot_conversations) = Min(4, N)
    /\ Len(Payloads) = Len(hot_conversations)
    /\ \A i, j \in 1..Len(hot_conversations) :
         i # j => hot_conversations[i] # hot_conversations[j]
    /\ Range(hot_conversations) \subseteq Talked
    /\ (N < 4 => Range(hot_conversations) = Talked)
    /\ (N = 0 => Payloads = <<>>)

\* five conversations, of which one is left out
C3_Witness ==
  /\ Done
  /\ N = 5
  /\ Len(Payloads) = 4
  /\ \E k \in Talked : k \notin Range(hot_conversations)

ExampleStats ==
  /\ Talked = {ConvA, ConvB, ConvC, ConvD}
  /\ HumanCount(ConvA) = 5 /\ DistinctSenders(ConvA) = 3
  /\ HumanCount(ConvB) = 3 /\ DistinctSenders(ConvB) = 1
  /\ HumanCount(ConvC) = 2 /\ DistinctSenders(ConvC) = 2
  /\ HumanCount(ConvD) = 1 /\ DistinctSenders(ConvD) = 1
  /\ FirstSeen(ConvA) < FirstSeen(ConvB)
  /\ FirstSeen(ConvB) < FirstSeen(ConvC)
  /\ FirstSeen(ConvC) < FirstSeen(ConvD)

\* C4: after the diversity winners come the conversations not yet selected,
\* longest first and ties in first-seen order, until 4 are selected; for
\* A (5 messages, 3 senders), B (3, 1), C (2, 2), D (1, 1), first seen in
\* that order, the result is [A, C, B, D].
C4_LengthWinnersAfter ==
  Done =>
    /\ Len(hot_conversations) = Min(4, N)
    /\ \A i \in (Min(2, N) + 1)..Len(hot_conversations) :
         /\ hot_conversations[i] \in Talked \ Winners
         /\ Cardinality({k \in Talked \ Winners : Longer(k, hot_conversations[i])})
              = i - Min(2, N) - 1
    /\ (ExampleStats => hot_conversations = <<ConvA, ConvC, ConvB, ConvD>>)

\* the worked example, with an automated message in one of its conversations
C4_Witness ==
  /\ Done
  /\ ExampleStats
  /\ \E i \in 1..Len(stream_messages) : ~stream_messages[i].sent_by_human
  /\ Len(hot_conversations) = 4

\* C7: every group's message count is the number of human-sent messages of
\* the input with that stream and topic, its participant set has as many
\* members as those messages have distinct senders, automated messages add
\* to neither, and a group of automated messages only is never selected.
C7_GroupStats ==
  Done =>
    /\ DictKeys(conversation_length) = Talked
    /\ DictKeys(conversation_diversity) = Talked
    /\ \A k \in Talked :
         /\ DictGet(conversation_length, k, 0) = HumanCount(k)
         /\ Cardinality(DictGet(conversation_diversity, k, {})) = DistinctSenders(k)
    /\ \A i \in 1..Len(hot_conversations) :
         /\ HumanIdx(hot_conversations[i]) # {}
         /\ Cardinality(Payloads[i].participants) = DistinctSenders(hot_conversations[i])

\* one conversation has human-sent and automated messages, another one has
\* automated messages only
C7_Witness ==
  /\ Done
  /\ \E k \in Talked : Cardinality(AllIdx(k)) > HumanCount(k)
  /\ \E i \in 1..Len(stream_messages) : KeyOf(stream_messages[i]) \notin Talked

\* C9: the backfill step appends nothing: when fewer than 4 conversations
\* are selected after the length pass, every conversation is selected
\* already and diversity_list[num_convos:4] is empty.
C9_BackfillAppendsNothing ==
  Done =>
    /\ Len(hot_conversations) = num_convos
    /\ (num_convos < 4 =>
          /\ Talked \subseteq Range(SubSeq(hot_conversations, 1, num_convos))
          /\ Slice(diversity_list, num_convos, 4) = <<>>)

\* three conversations, all selected before the backfill step
C9_Witness ==
  /\ Done
  /\ num_convos = 3
  /\ N = 3
  /\ Len(diversity_list) = 3

\* C5: enough_traffic is true exactly when the unread PMs are non-empty, or
\* the hot conversations are non-empty, or the new-streams count and the
\* new-users count are both greater than 0.
C5_EnoughTrafficIff ==
  Done =>
    (enough = TRUE <=>
       \/ Len(traffic.unread_pms) > 0
       \/ Len(traffic.hot_conversations) > 0
       \/ (traffic.new_streams > 0 /\ traffic.new_users > 0))

\* no traffic and new streams, but no new users: not enough
C5_Witness ==
  /\ Done
  /\ traffic.unread_pms = <<>> /\ traffic.hot_conversations = <<>>
  /\ traffic.new_streams > 0 /\ traffic.new_users = 0
  /\ enough = FALSE

Buckets == {"unread_pms", "hot_conversations", "new_streams", "new_users"}

\* C6: for a long_term_idle user build_digest returns no payload and has
\* gathered none of the four buckets; for every other user it returns a
\* context with unread_pms, hot_conversations, new_streams and new_users.
C6_IdleUserSkipped ==
  Done =>
    IF user_profile.long_term_idle
      THEN digest_context = NoContext /\ gathered = <<>>
      ELSE /\ digest_context.returned = "context"
           /\ Buckets \subseteq DOMAIN digest_context.context
           /\ Len(gathered) = 4

\* an idle user with missed PMs and stream traffic in the window
C6_Witness ==
  /\ Done
  /\ user_profile.long_term_idle
  /\ MissedPms(all_messages, user_profile) # <<>>
  /\ HomeViewStreamMessages(all_messages) # <<>>
  /\ digest_context = NoContext

\* missed PMs of the window, counted from the rows
MissedCount ==
  Cardinality({i \in 1..Len(all_messages) :
                 /\ all_messages[i].recipient_type = PERSONAL
                 /\ all_messages[i].sender # user_profile.full_name})

\* C10: with n missed PMs at most 4 are shown and
\* remaining_unread_pms_count is never positive: n - 4 when n < 4, 0 when
\* n >= 4; for n > 4 it is not the number of missed PMs left unshown.
C10_RemainingNeverPositive ==
  (Done /\ ~user_profile.long_term_idle) =>
    LET context == digest_context.context
        n == MissedCount
    IN /\ Len(context.unread_pms) <= 4
       /\ context.remaining_unread_pms_count <= 0
       /\ (n < 4 => context.remaining_unread_pms_count = n - 4)
       /\ (n >= 4 => context.remaining_unread_pms_count = 0)
       /\ (n > 4 => context.remaining_unread_pms_count # n - Len(context.unread_pms))

\* five missed PMs: four shown, one left, and a remaining count of 0
C10_Witness ==
  /\ Done
  /\ ~user_profile.long_term_idle
  /\ MissedCount = 5
  /\ Len(digest_context.context.unread_pms) = 4
  /\ digest_context.context.remaining_unread_pms_count = 0

\* the users enqueue_emails is meant to queue
Eligible(u) ==
  /\ SEND_DIGEST_EMAILS
  /\ weekday = VALID_DIGEST_DAY
  /\ \E i \in 1..Len(realms) :
       /\ realms[i].string_id = u.realm
       /\ ~realms[i].deactivated
       /\ realms[i].show_digest_email
       /\ realms[i].string_id \notin SYSTEM_ONLY_REALMS
  /\ u.is_active /\ ~u.is_bot /\ u.enable_digest_emails
  /\ (user_activity[u.id] = {} \/ \A v \in user_activity[u.id] : v < cutoff)

EventsFor(u) ==
  {i \in 1..Len(digest_emails) : digest_emails[i].user_profile_id = u.id}

\* C8: after enqueue_emails an event is queued for a user exactly when the
\* setting is on, the day is Tuesday, the realm is live, shows digests and
\* is not system-only, the user is active, no bot, has digests enabled and
\* has never visited or last visited before the cutoff; the user is then
\* queued once, with the user's id and the cutoff.
C8_QueuedIffEligible ==
  Done =>
    \A j \in 1..Len(user_profiles) :
      LET u == user_profiles[j] IN
      /\ Cardinality(EventsFor(u)) = (IF Eligible(u) THEN 1 ELSE 0)
      /\ \A i \in EventsFor(u) : digest_emails[i].cutoff = ToString(cutoff)
====
